---- MODULE Spec2Model ----
(***************************************************************************)
(* One invocation of the website-change watcher, for its two entry points: *)
(*   check-website.py  (requests + BeautifulSoup fetch, Twilio SMS)        *)
(*   check_website.py  (Playwright fetch, e-mail gateway + Telegram)       *)
(* Strings are sequences of one-character strings, so that strip(), split  *)
(* and the f-string message bodies are computed as the code computes them. *)
(***************************************************************************)
EXTENDS Integers, Sequences, FiniteSets, TLC

\* ------------------------------------------------------------------ bounds
MaxTextLen == 2      \* longest element text / expected text enumerated
MaxToLen == 3        \* longest to_numbers argument enumerated

\* ------------------------------------------------------- python values
PyNone == [isNone |-> TRUE, s |-> <<>>]
PyStr(str) == [isNone |-> FALSE, s |-> str]
Truthy(v) == ~v.isNone /\ v.s # <<>>

SeqsUpTo(S, n) == UNION {[1..k -> S] : k \in 0..n}

RECURSIVE LStrip(_)
LStrip(str) == IF str # <<>> /\ Head(str) = " " THEN LStrip(Tail(str)) ELSE str

RECURSIVE RStrip(_)
RStrip(str) ==
    IF str # <<>> /\ str[Len(str)] = " " THEN RStrip(SubSeq(str, 1, Len(str) - 1)) ELSE str

\* str.strip()
Strip(str) == RStrip(LStrip(str))

\* str.split(",")
RECURSIVE Split(_)
Split(str) ==
    IF \A i \in 1..Len(str) : str[i] # ","
    THEN <<str>>
    ELSE LET k == CHOOSE i \in 1..Len(str) :
                      str[i] = "," /\ \A j \in 1..(i - 1) : str[j] # ","
         IN  <<SubSeq(str, 1, k - 1)>> \o Split(SubSeq(str, k + 1, Len(str)))

\* sub in body
Contains(body, sub) ==
    \E i \in 0..(Len(body) - Len(sub)) : SubSeq(body, i + 1, i + Len(sub)) = sub

\* ------------------------------------------------------------ literals
TW == "check-website.py"
PW == "check_website.py"

NOT_FOUND_TEXT == <<"t", "e", "x", "t", "_", "n", "o", "t", "_", "f", "o", "u", "n", "d", ",", " ", "c", "h", "e", "c", "k", " ", "H", "T", "M", "L", " ", "s", "e", "l", "e", "c", "t", "o", "r">>
PW_MSG_HEAD == <<"T", "h", "e", " ", "w", "e", "b", "p", "a", "g", "e", " ", "h", "a", "s", " ", "c", "h", "a", "n", "g", "e", "d", "!", " ", "E", "x", "p", "e", "c", "t", "e", "d", ":", " ">>
PW_MSG_MID == <<" ", "|", " ", "F", "o", "u", "n", "d", ":", " ">>
TW_MSG_HEAD == <<"W", "e", "b", "s", "i", "t", "e", " ", "c", "h", "e", "c", "k", " ", "a", "l", "e", "r", "t", ":", " ", "t", "e", "x", "t", " ", "c", "h", "a", "n", "g", "e", "d", ".", "\n", "U", "R", "L", ":", " ">>
TW_MSG_EXPECTED == <<"\n", "E", "x", "p", "e", "c", "t", "e", "d", ":", " ">>
TW_MSG_FOUND == <<"\n", "F", "o", "u", "n", "d", ":", " ">>
URL == <<"u">>

TwilioVars == {"TWILIO_ACCOUNT_SID", "TWILIO_AUTH_TOKEN", "TWILIO_FROM_NUMBER", "TWILIO_TO_NUMBER"}
send_telegram_params == <<"token", "chat_id", "message", "url">>
send_telegram_call_args == <<"args.telegram_bot_token", "args.telegram_chat_id", "message">>

\* ------------------------------------------------------ input universes
TextAlphabet == {"a", " "}
ToAlphabet == {"a", ",", " "}
CredValues == {PyNone, PyStr(<<>>), PyStr(<<"k">>)}
ExpectedInputs == SeqsUpTo(TextAlphabet, MaxTextLen) \cup {NOT_FOUND_TEXT}
ToNumbersInputs == SeqsUpTo(ToAlphabet, MaxToLen)
PageResults ==
    {[kind |-> "fail", text |-> <<>>], [kind |-> "none", text |-> <<>>]}
        \cup {[kind |-> "elem", text |-> t] : t \in SeqsUpTo(TextAlphabet, MaxTextLen)}
Unfetched == [kind |-> "unfetched", text |-> <<>>]
NoExit == -1

VARIABLES entry, environ, args, page, pc, found_text, recipients, idx,
          message, attempts, log, stderr, exit_code

vars == <<entry, environ, args, page, pc, found_text, recipients, idx,
          message, attempts, log, stderr, exit_code>>

Line(level, msg) == [level |-> level, msg |-> msg]
Attempt(channel, to, body, ok) == [channel |-> channel, to |-> to, body |-> body, ok |-> ok]

\* ------------------------------------------------- pure functions of src
get_element_text(p) ==
    IF p.kind = "none" THEN PyNone ELSE PyStr(Strip(p.text))

get_element_text_with_browser(p) ==
    IF p.kind = "none" THEN PyNone
    ELSE IF p.text # <<>> THEN PyStr(Strip(p.text)) ELSE PyNone

parse_recipients(value) ==
    IF value = <<>> \/ Strip(value) = <<>>
    THEN <<>>
    ELSE [i \in 1..Len(Split(value)) |-> Strip(Split(value)[i])]

tw_message(expected, found) ==
    TW_MSG_HEAD \o URL \o TW_MSG_EXPECTED \o expected \o TW_MSG_FOUND \o found

pw_message(expected, found) ==
    PW_MSG_HEAD \o expected \o PW_MSG_MID \o found

\* ------------------------------------------------------------------ Init
Init ==
    /\ entry \in {TW, PW}
    /\ \E e \in ExpectedInputs :
         IF entry = TW
         THEN /\ environ \in [TwilioVars -> CredValues]
              /\ args = [expected |-> e, email_app_password |-> PyNone,
                         to_numbers |-> <<>>, telegram_bot_token |-> PyNone,
                         telegram_chat_id |-> PyNone]
         ELSE /\ environ = [v \in TwilioVars |-> PyNone]
              /\ \E pw \in CredValues, tok \in CredValues, chat \in CredValues,
                    to \in ToNumbersInputs :
                   args = [expected |-> e, email_app_password |-> pw,
                           to_numbers |-> to, telegram_bot_token |-> tok,
                           telegram_chat_id |-> chat]
    /\ page = Unfetched
    /\ pc = "start"
    /\ found_text = PyNone
    /\ recipients = <<>>
    /\ idx = 1
    /\ message = <<>>
    /\ attempts = <<>>
    /\ log = <<>>
    /\ stderr = <<>>
    /\ exit_code = NoExit

Exit(code) == pc' = "done" /\ exit_code' = code

\* ------------------------------------------------ check-website.py main
tw_CheckCreds ==
    /\ entry = TW /\ pc = "start"
    /\ IF ~(\A v \in TwilioVars : Truthy(environ[v]))
       THEN /\ log' = Append(log, Line("ERROR", "Missing Twilio env vars"))
            /\ Exit(1)
       ELSE /\ log' = Append(log, Line("INFO", "Checking URL"))
            /\ pc' = "fetch"
            /\ UNCHANGED exit_code
    /\ UNCHANGED <<entry, environ, args, page, found_text, recipients, idx,
                   message, attempts, stderr>>

\* variant: a failed fetch is carried on as "no element found"
tw_Fetch_NoAbort ==
    /\ entry = TW /\ pc = "fetch"
    /\ \E p \in PageResults :
         /\ page' = p
         /\ found_text' = IF p.kind = "fail" THEN PyNone ELSE get_element_text(p)
         /\ pc' = "compare"
         /\ UNCHANGED <<log, exit_code>>
    /\ UNCHANGED <<entry, environ, args, recipients, idx, message, attempts, stderr>>

tw_Fetch ==
    /\ entry = TW /\ pc = "fetch"
    /\ \E p \in PageResults :
         /\ page' = p
         /\ IF p.kind = "fail"
            THEN /\ log' = Append(log, Line("ERROR", "Failed to fetch URL"))
                 /\ Exit(1)
                 /\ UNCHANGED found_text
            ELSE /\ found_text' = get_element_text(p)
                 /\ pc' = "compare"
                 /\ UNCHANGED <<log, exit_code>>
    /\ UNCHANGED <<entry, environ, args, recipients, idx, message, attempts, stderr>>

tw_Compare ==
    /\ entry = TW /\ pc = "compare"
    /\ LET ft == IF found_text.isNone THEN <<>> ELSE found_text.s
           l1 == IF found_text.isNone
                 THEN Append(log, Line("WARNING", "No element found for selector"))
                 ELSE log
       IN  /\ found_text' = PyStr(ft)
           /\ IF ft = args.expected
              THEN /\ log' = Append(l1, Line("INFO", "Text matches expected"))
                   /\ Exit(0)
                   /\ UNCHANGED message
              ELSE /\ log' = Append(l1, Line("INFO", "Text differs"))
                   /\ message' = tw_message(args.expected, ft)
                   /\ pc' = "notify"
                   /\ UNCHANGED exit_code
    /\ UNCHANGED <<entry, environ, args, page, recipients, idx, attempts, stderr>>

\* variant: the except branch logs the failure and falls through to return 0
tw_SendSms_NoReturn1 ==
    /\ entry = TW /\ pc = "notify"
    /\ \E ok \in BOOLEAN :
         /\ attempts' = Append(attempts,
                Attempt("twilio", environ["TWILIO_TO_NUMBER"].s, message, ok))
         /\ log' = Append(log, IF ok THEN Line("INFO", "SMS sent successfully")
                                     ELSE Line("ERROR", "Failed to send SMS"))
         /\ Exit(0)
    /\ UNCHANGED <<entry, environ, args, page, found_text, recipients, idx,
                   message, stderr>>

tw_SendSms ==
    /\ entry = TW /\ pc = "notify"
    /\ \E ok \in BOOLEAN :
         /\ attempts' = Append(attempts,
                Attempt("twilio", environ["TWILIO_TO_NUMBER"].s, message, ok))
         /\ IF ok
            THEN /\ log' = Append(log, Line("INFO", "SMS sent successfully"))
                 /\ Exit(0)
            ELSE /\ log' = Append(log, Line("ERROR", "Failed to send SMS"))
                 /\ Exit(1)
    /\ UNCHANGED <<entry, environ, args, page, found_text, recipients, idx,
                   message, stderr>>

\* ------------------------------------------------ check_website.py main
pw_ParseArgs ==
    /\ entry = PW /\ pc = "start"
    /\ IF args.email_app_password.isNone \/ args.telegram_bot_token.isNone
            \/ args.telegram_chat_id.isNone
       THEN /\ stderr' = Append(stderr, "error: the following arguments are required")
            /\ Exit(2)
            /\ UNCHANGED log
       ELSE /\ log' = Append(log, Line("INFO", "Checking URL with selector"))
            /\ pc' = "fetch"
            /\ UNCHANGED <<stderr, exit_code>>
    /\ UNCHANGED <<entry, environ, args, page, found_text, recipients, idx,
                   message, attempts>>

pw_Fetch ==
    /\ entry = PW /\ pc = "fetch"
    /\ \E p \in PageResults :
         /\ page' = p
         /\ IF p.kind = "fail"
            THEN /\ log' = Append(log, Line("ERROR", "Failed to load page"))
                 /\ Exit(1)
                 /\ UNCHANGED found_text
            ELSE /\ found_text' = get_element_text_with_browser(p)
                 /\ pc' = "compare"
                 /\ UNCHANGED <<log, exit_code>>
    /\ UNCHANGED <<entry, environ, args, recipients, idx, message, attempts, stderr>>

pw_Compare ==
    /\ entry = PW /\ pc = "compare"
    /\ LET ft == IF found_text.isNone THEN NOT_FOUND_TEXT ELSE found_text.s
           l1 == IF found_text.isNone
                 THEN Append(log, Line("WARNING", "No element found for selector"))
                 ELSE log
       IN  /\ found_text' = PyStr(ft)
           /\ IF ft = args.expected
              THEN /\ log' = Append(l1, Line("INFO", "Text matches expected"))
                   /\ Exit(0)
                   /\ UNCHANGED <<message, recipients, idx>>
              ELSE /\ log' = l1
                   /\ recipients' = parse_recipients(args.to_numbers)
                   /\ message' = pw_message(args.expected, ft)
                   /\ idx' = 1
                   /\ pc' = "notify"
                   /\ UNCHANGED exit_code
    /\ UNCHANGED <<entry, environ, args, page, attempts, stderr>>

\* one iteration of the for loop over recipients; send_email has no handler,
\* so an exception of yagmail leaves main uncaught (traceback, exit status 1)
pw_SendEmail ==
    /\ entry = PW /\ pc = "notify" /\ idx <= Len(recipients)
    /\ \E ok \in BOOLEAN :
         /\ attempts' = Append(attempts, Attempt("email", recipients[idx], message, ok))
         /\ IF ok
            THEN /\ log' = Append(log, Line("INFO", "Sent email"))
                 /\ idx' = idx + 1
                 /\ UNCHANGED <<pc, exit_code, stderr>>
            ELSE /\ stderr' = Append(stderr, "Traceback: yagmail error")
                 /\ Exit(1)
                 /\ UNCHANGED <<log, idx>>
    /\ UNCHANGED <<entry, environ, args, page, found_text, recipients, message>>

\* the call of send_telegram after the loop, and the rest of main
pw_SendTelegram ==
    /\ entry = PW /\ pc = "notify" /\ idx > Len(recipients)
    /\ IF Len(send_telegram_call_args) # Len(send_telegram_params)
       THEN /\ stderr' = Append(stderr, "Traceback: TypeError missing argument")
            /\ Exit(1)
            /\ UNCHANGED <<attempts, log>>
       ELSE \E r \in {"ok", "http_error", "raise"} :
              /\ attempts' = Append(attempts,
                     Attempt("telegram", args.telegram_chat_id.s, message, r = "ok"))
              /\ IF r = "raise"
                 THEN /\ stderr' = Append(stderr, "Traceback: requests error")
                      /\ Exit(1)
                      /\ UNCHANGED log
                 ELSE /\ log' = log \o <<Line("INFO", "Sent to Telegram."),
                                         Line("INFO", "The webpage has changed!")>>
                      /\ Exit(0)
                      /\ UNCHANGED stderr
    /\ UNCHANGED <<entry, environ, args, page, found_text, recipients, idx, message>>

Next ==
    \/ tw_CheckCreds
    \/ tw_Fetch
    \/ tw_Compare
    \/ tw_SendSms
    \/ pw_ParseArgs
    \/ pw_Fetch
    \/ pw_Compare
    \/ pw_SendEmail
    \/ pw_SendTelegram

Spec == Init /\ [][Next]_vars

\* --------------------------------------------------- vocabulary of claims
Done == pc = "done"
Changed == message # <<>>
FailedAttempts == {i \in 1..Len(attempts) : ~attempts[i].ok}
OkAttempts == {i \in 1..Len(attempts) : attempts[i].ok}
LogLines(level, msgs) == {j \in 1..Len(log) : log[j].level = level /\ log[j].msg \in msgs}

FOUND_LABEL == <<"F", "o", "u", "n", "d", ":", " ">>
\* the observed text as it stands in a message body: what follows "Found: "
ObservedText(body) ==
    LET k == CHOOSE i \in 0..(Len(body) - Len(FOUND_LABEL)) :
                 /\ SubSeq(body, i + 1, i + Len(FOUND_LABEL)) = FOUND_LABEL
                 /\ \A j \in 0..(i - 1) :
                        SubSeq(body, j + 1, j + Len(FOUND_LABEL)) # FOUND_LABEL
    IN  SubSeq(body, k + Len(FOUND_LABEL) + 1, Len(body))

\* number of (channel, recipient) pairs the run is configured with
ConfiguredPairs == IF entry = TW THEN 1 ELSE Len(recipients) + 1

MissingCredential ==
    IF entry = TW
    THEN \E v \in TwilioVars : ~Truthy(environ[v])
    ELSE \/ ~Truthy(args.email_app_password)
         \/ ~Truthy(args.telegram_bot_token)
         \/ ~Truthy(args.telegram_chat_id)

\* ------------------------------------------------------------------ C1
\* C1: whenever the selector matched no element, the finished run has
\* reported a change and attempted a notification, whatever the expected
\* string is.
C1_NotFoundAlwaysNotifies ==
    (Done /\ page.kind = "none") => (Changed /\ attempts # <<>>)

\* ------------------------------------------------------------------ C2
\* C2: when the page was fetched, the selector matched and the trimmed
\* element text equals the expected string, no delivery is attempted and the
\* run exits with code 0.
C2_MatchIsSilent ==
    (page.kind = "elem" /\ Strip(page.text) = args.expected)
        => (attempts = <<>> /\ (Done => exit_code = 0))

C4_FanOutIsComplete ==
    (entry = PW /\ Done /\ Changed) => Len(attempts) = Len(recipients) + 1

\* ------------------------------------------------------------------ C5
\* C5 (as stated): a run that detected a change exits with code 0, failed
\* deliveries included.
C5_ChangeExitsZero ==
    (Done /\ Changed) => exit_code = 0

\* C5 (amended): a run that detected a change and had a delivery attempt
\* fail exits with code 1.
C5_DeliveryFailureExitsOne ==
    (Done /\ Changed /\ FailedAttempts # {}) => exit_code = 1

C5_Witness ==
    Done /\ Changed /\ FailedAttempts # {} /\ exit_code = 1 /\ entry = TW

\* ------------------------------------------------------------------ C6
\* C6: when a change was detected and every transport call succeeded, the
\* finished run has made exactly one attempt per configured (channel,
\* recipient) pair, every body contains the expected and the observed text,
\* and the exit code is 0.
C6_AllSucceed ==
    (Done /\ Changed /\ FailedAttempts = {})
        => /\ Len(attempts) = ConfiguredPairs
           /\ \A i \in 1..Len(attempts) :
                  /\ Contains(attempts[i].body, args.expected)
                  /\ Contains(attempts[i].body, found_text.s)
           /\ exit_code = 0

\* ------------------------------------------------------------------ C7
\* C7: parse_recipients yields no recipient for an empty or blank argument,
\* never yields an empty-string recipient, and no e-mail is attempted to an
\* empty address.
C7_NoEmptyRecipient ==
    /\ (Changed /\ entry = PW /\ Strip(args.to_numbers) = <<>>) => recipients = <<>>
    /\ \A i \in 1..Len(recipients) : recipients[i] # <<>>
    /\ \A i \in 1..Len(attempts) :
           attempts[i].channel = "email" => attempts[i].to # <<>>

\* ------------------------------------------------------------------ C8
\* C8: when the selector matched nothing, the observed text in the body of
\* every delivery attempt is a non-empty sentinel.
C8_SentinelInBody ==
    page.kind = "none"
        => \A i \in 1..Len(attempts) : ObservedText(attempts[i].body) # <<>>

\* ------------------------------------------------------------------ C9
\* C9: with a required credential absent or empty, no page is fetched and no
\* delivery is attempted, and the run ends with exit code 1 after exactly one
\* logged error.
C9_MissingCredentialAborts ==
    MissingCredential
        => /\ page = Unfetched
           /\ attempts = <<>>
           /\ Done => (exit_code = 1 /\ Cardinality({j \in 1..Len(log) : log[j].level = "ERROR"}) = 1)

\* ------------------------------------------------------------------ C10
\* C10: the log holds one failure line per failed delivery attempt and one
\* success line per successful delivery attempt.
C10_TruthfulLog ==
    /\ Cardinality(FailedAttempts)
           = Cardinality(LogLines("ERROR", {"Failed to send SMS", "Failed to send email",
                                            "Failed to send to Telegram"}))
    /\ Cardinality(OkAttempts)
           = Cardinality(LogLines("INFO", {"SMS sent successfully", "Sent email",
                                           "Sent to Telegram."}))
====
